---- MODULE Spec2Model ----
(***************************************************************************)
(* Model of the indexation-resolution pipeline of the SEO indexation       *)
(* checker: src/src/indexation_checker.py (sitemap harvesting, method      *)
(* selection, the scraped-search loops), src/src/search_console_checker.py *)
(* and src/src/indexed_api_checker.py (the two API backends), and of       *)
(* save_results_to_csv, which persists a result list.                      *)
(*                                                                         *)
(* A URL is a sequence of one-character strings, so that the substring     *)
(* test `p in s`, str.strip() and urlparse().netloc are computed and not   *)
(* assumed.  An optional key of the website configuration dictionary is a  *)
(* sequence of length 0 (key absent) or 1 (key present).                   *)
(***************************************************************************)
EXTENDS Integers, Sequences, FiniteSets, TLC

VARIABLES
    entry,            \* entry point of the behaviour: "check_website_indexation", "gsc_direct" or "save_results_to_csv"
    website_config,   \* the website descriptor passed by the caller
    env,              \* the outside world: sitemap fetch failures, Search Console credential, property list, report rows
    stop_event,       \* "None" (not passed), "clear" or "set"
    pc,               \* position of the run
    gsc_properties,   \* line 176-178
    sitemap_urls,     \* sitemaps still to fetch (index expansion or configured list)
    cur,              \* loop cursor: next sitemap (harvest) or next URL (search loop), 1-based
    all_urls,         \* harvested (then truncated) URL list
    harvested,        \* history: the harvested list as it was before truncation
    gsc_property_url, \* matched property: <<>> (None) or <<prop>>
    branch,           \* branch of the method if-chain taken at lines 231-261
    results,          \* the result list being built / returned
    calls,            \* history: backend invocations, in order
    netlog,           \* history: URLs for which a search request was issued
    fetched,          \* history: sitemap / index URLs fetched
    engine,           \* the search engine's responses of this run, used cyclically
    delay,            \* history: last time.sleep() of a search loop, in tenths of a second
    stopSnap,         \* history: where the run was when the signal became set
    save_args,        \* arguments of save_results_to_csv: results and website_name
    files,            \* the working directory: file name -> content, a sequence of characters
    filename,         \* what save_results_to_csv returned: <<>> (None) or <<name>>
    save_log,         \* history: the directory before the call, and where the write failed
    caller,           \* a caller of the core walking its list of websites (CLI, GUI run, scheduled run)
    gui,              \* the simple GUI: is_checking, its stop event, its check threads, pending root.after calls
    sched             \* the scheduler: is_running, its stop event, its configuration, its loop threads, the clock

\* the variables of the core functions, and those of the application around them
coreVars == <<entry, website_config, env, stop_event, pc, gsc_properties, sitemap_urls, cur,
              all_urls, gsc_property_url, branch, results, calls, netlog, fetched, engine, delay,
              stopSnap, harvested, save_args, files, filename, save_log>>
appVars == <<caller, gui, sched>>
vars == <<coreVars, appVars>>

-----------------------------------------------------------------------------
(* Bounds *)

\* length of the large sitemap (more URLs than the default max_urls)
BigSitemapLen == 101

-----------------------------------------------------------------------------
(* Strings *)

Get(opt, default) == IF opt = <<>> THEN default ELSE opt[1]

\* Python `p in s` for strings
Contains(p, s) ==
    \E k \in 0..(Len(s) - Len(p)) : \A j \in 1..Len(p) : s[k + j] = p[j]

IsSpace(c) == c = " "

RECURSIVE LStrip(_)
LStrip(s) == IF s # <<>> /\ IsSpace(Head(s)) THEN LStrip(Tail(s)) ELSE s

RECURSIVE RStrip(_)
RStrip(s) == IF s # <<>> /\ IsSpace(s[Len(s)]) THEN RStrip(SubSeq(s, 1, Len(s) - 1)) ELSE s

\* str.strip()
Strip(s) == RStrip(LStrip(s))

RECURSIVE RStripSlash(_)
\* str.rstrip('/')
RStripSlash(s) == IF s # <<>> /\ s[Len(s)] = "/" THEN RStripSlash(SubSeq(s, 1, Len(s) - 1)) ELSE s

\* position of the first element of s satisfying membership in cs, or Len(s)+1
RECURSIVE FirstIn(_, _, _)
FirstIn(s, cs, k) == IF k > Len(s) \/ s[k] \in cs THEN k ELSE FirstIn(s, cs, k + 1)

SchemeChars == {"h", "s", "c", "-", "d", "o", "m", "a", "i", "n"}

\* urlparse(url).netloc; urlsplit drops leading whitespace before it looks for
\* the scheme (CPython 3.11.4 and later), and the netloc ends at the first / ? #
get_base_domain(url) ==
    LET s     == LStrip(url)
        colon == FirstIn(s, {":"}, 1)
        hasScheme == /\ colon <= Len(s)
                     /\ colon > 1
                     /\ \A j \in 1..(colon - 1) : s[j] \in SchemeChars
        rest  == IF hasScheme THEN SubSeq(s, colon + 1, Len(s)) ELSE s
    IN IF Len(rest) >= 2 /\ rest[1] = "/" /\ rest[2] = "/"
       THEN LET r2 == SubSeq(rest, 3, Len(rest))
            IN SubSeq(r2, 1, FirstIn(r2, {"/", "?", "#"}, 1) - 1)
       ELSE <<>>

-----------------------------------------------------------------------------
(* The outside world: sitemaps, pages, Search Console properties *)

Base == <<"h", ":", "/", "/", "a", "/">>
IndexUrl == Base \o <<"i">>
SmP == Base \o <<"p">>
SmQ == Base \o <<"q">>
SmBig == Base \o <<"b">>

P1 == Base \o <<"x">>
P2 == Base \o <<"y", "/">>
P3 == <<" ">> \o Base \o <<"z">> \o <<" ">>
P4 == Base \o <<"w">>

PropA == <<"h", ":", "/", "/", "a", "/">>
PropB == <<"h", ":", "/", "/", "b", "/">>
\* a domain property, listed by the API as sc-domain:<domain>
DomainPrefix == <<"s", "c", "-", "d", "o", "m", "a", "i", "n", ":">>
PropDomainB == DomainPrefix \o <<"b">>

CyclePages == <<P1, P2, P3>>

\* <loc> texts of each document when its fetch and parse succeed
Locs(u) ==
    IF u = IndexUrl THEN <<SmP, SmQ>>
    ELSE IF u = SmP THEN <<P1, P2, P3>>
    ELSE IF u = SmQ THEN <<P4, P1>>
    ELSE IF u = SmBig THEN [i \in 1..BigSitemapLen |-> CyclePages[(i % 3) + 1]]
    ELSE <<>>

-----------------------------------------------------------------------------
(* Program constants *)

\* website_config.get('max_urls', 100)
DefaultMaxUrls == 100
\* explicit google_search loop: `if i % 20 == 0`, sleep(2) else sleep(0.5)
ExplicitBatchEvery == 20
ExplicitBatchPause == 20
ExplicitBaseDelay == 5
\* auto fallback loop: sleep(10) on rate limit, `elif i % 10 == 0` sleep(3), else sleep(1.5)
FallbackRateLimitDelay == 100
FallbackBatchEvery == 10
FallbackBatchPause == 30
FallbackBaseDelay == 15

-----------------------------------------------------------------------------
(* Harvesting *)

\* fetch_urls_from_sitemap: the <loc> texts, or [] on any fetch/parse failure
fetch_urls_from_sitemap(u) == IF u \in env.failing THEN <<>> ELSE Locs(u)

\* all() in place of any()
should_exclude_All(sitemap_url, exclude_sitemaps) ==
    /\ exclude_sitemaps # <<>>
    /\ \A i \in 1..Len(exclude_sitemaps) : Contains(exclude_sitemaps[i], sitemap_url)

\* line 47: any(exclude in sitemap_url for exclude in exclude_sitemaps)
should_exclude(sitemap_url, exclude_sitemaps) ==
    \E i \in 1..Len(exclude_sitemaps) : Contains(exclude_sitemaps[i], sitemap_url)

\* lines 42-49: the index entries kept for fetching, in index order
KeptSitemaps(locs, exclude_sitemaps) ==
    SelectSeq(locs, LAMBDA s : ~should_exclude(s, exclude_sitemaps))

-----------------------------------------------------------------------------
(* Backends *)

Record(url, status, method) ==
    [url |-> url, status |-> status, method |-> method, check_date |-> "now"]

\* every 2xx response is read as a result page
check_indexation_google_search_Any2xx(resp) ==
    IF resp.exc
    THEN [status |-> "ERROR", method |-> "Google Search (exception)"]
    ELSE IF resp.code \in 200..299
         THEN IF resp.marker
              THEN [status |-> "NOT INDEXED", method |-> "Google Search"]
              ELSE [status |-> "INDEXED", method |-> "Google Search"]
         ELSE IF resp.code = 429
              THEN [status |-> "RATE LIMITED",
                    method |-> "Google Search (HTTP " \o ToString(resp.code) \o ")"]
              ELSE [status |-> "ERROR",
                    method |-> "Google Search (HTTP " \o ToString(resp.code) \o ")"]

\* check_indexation_google_search: a response is [exc, code, marker]
check_indexation_google_search(resp) ==
    IF resp.exc
    THEN [status |-> "ERROR", method |-> "Google Search (exception)"]
    ELSE IF resp.code = 200
         THEN IF resp.marker
              THEN [status |-> "NOT INDEXED", method |-> "Google Search"]
              ELSE [status |-> "INDEXED", method |-> "Google Search"]
         ELSE IF resp.code = 429
              THEN [status |-> "RATE LIMITED",
                    method |-> "Google Search (HTTP " \o ToString(resp.code) \o ")"]
              ELSE [status |-> "ERROR",
                    method |-> "Google Search (HTTP " \o ToString(resp.code) \o ")"]

\* a URL without reporting data is reported as not indexed
GscRecord_Binary(url, indexed_pages) ==
    LET clean_url == Strip(url)
        alt_url   == IF clean_url # <<>> /\ clean_url[Len(clean_url)] = "/"
                     THEN RStripSlash(clean_url)
                     ELSE clean_url \o <<"/">>
    IN IF clean_url \in indexed_pages
       THEN Record(clean_url, "INDEXED", "Search Console Data")
       ELSE IF alt_url \in indexed_pages
            THEN Record(clean_url, "INDEXED", "Search Console Data (alt URL)")
            ELSE Record(clean_url, "NOT INDEXED", "Search Console Data")

\* one result record of the Search Console loop, lines 115-138
GscRecord(url, indexed_pages) ==
    LET clean_url == Strip(url)
        alt_url   == IF clean_url # <<>> /\ clean_url[Len(clean_url)] = "/"
                     THEN RStripSlash(clean_url)
                     ELSE clean_url \o <<"/">>
    IN IF clean_url \in indexed_pages
       THEN Record(clean_url, "INDEXED", "Search Console Data")
       ELSE IF alt_url \in indexed_pages
            THEN Record(clean_url, "INDEXED", "Search Console Data (alt URL)")
            ELSE Record(clean_url, "NOT IN SEARCH CONSOLE DATA", "Search Console Data")

\* the loop keeps only the URLs that have reporting data
SearchConsoleChecker_check_indexation_status_Drops(service, report, urls_to_check, kwargs) ==
    IF ~(kwargs \subseteq {"site_url", "urls_to_check", "days_back"})
    THEN [raised |-> TRUE, out |-> <<>>]
    ELSE IF ~service \/ report.exc
         THEN [raised |-> FALSE, out |-> <<>>]
         ELSE [raised |-> FALSE,
               out |-> SelectSeq([i \in 1..Len(urls_to_check) |->
                                     GscRecord(urls_to_check[i], report.pages)],
                                 LAMBDA r : r.status = "INDEXED")]

\* parameters accepted by SearchConsoleChecker.check_indexation_status (line 70)
GscParameters == {"site_url", "urls_to_check", "days_back"}

\* SearchConsoleChecker.check_indexation_status called with the given keyword
\* arguments: binding an unknown keyword raises TypeError before the body runs
SearchConsoleChecker_check_indexation_status(service, report, urls_to_check, kwargs) ==
    IF ~(kwargs \subseteq GscParameters)
    THEN [raised |-> TRUE, out |-> <<>>]
    ELSE IF ~service
         THEN [raised |-> FALSE, out |-> <<>>]
         ELSE IF report.exc
              THEN [raised |-> FALSE, out |-> <<>>]
              ELSE [raised |-> FALSE,
                    out |-> [i \in 1..Len(urls_to_check) |->
                                GscRecord(urls_to_check[i], report.pages)]]

\* the bulk API answers for every URL
IndexedAPIChecker_check_indexation_status_Answers(api_key, urls) ==
    IF api_key = "" THEN <<>>
    ELSE [i \in 1..Len(urls) |-> Record(urls[i], "INDEXED", "IndexedAPI")]

\* IndexedAPIChecker.check_indexation_status: every path returns []
IndexedAPIChecker_check_indexation_status(api_key, urls) ==
    IF api_key = "" THEN <<>>
    ELSE IF urls = <<>> THEN <<>>
    ELSE <<>>

-----------------------------------------------------------------------------
(* Method selection *)

\* the limit applied one position too late
Truncate_OffByOne(urls, max_urls) ==
    IF Len(urls) > max_urls THEN SubSeq(urls, 1, max_urls + 1) ELSE urls

\* lines 211-214
Truncate(urls, max_urls) ==
    IF Len(urls) > max_urls THEN SubSeq(urls, 1, max_urls) ELSE urls

\* the first accessible property is taken whatever its domain
MatchProperty_Any(props, website_domain, k) ==
    IF k > Len(props) THEN <<>> ELSE <<props[k]>>

\* lines 217-226: first property whose domain contains, or is contained in, the site's
RECURSIVE MatchProperty(_, _, _)
MatchProperty(props, website_domain, k) ==
    IF k > Len(props) THEN <<>>
    ELSE LET prop_domain == get_base_domain(props[k])
         IN IF Contains(website_domain, prop_domain) \/ Contains(prop_domain, website_domain)
            THEN <<props[k]>>
            ELSE MatchProperty(props, website_domain, k + 1)

\* lines 172-173: a checker exists iff the key is truthy
indexed_api_available(cfg) == Get(cfg.indexed_api_key, "") # ""

\* the chain without the availability conditions of its first two branches
SelectBranch_Strict(preferred_method, prop, api_available) ==
    IF preferred_method = "gsc" THEN "gsc"
    ELSE IF preferred_method = "indexed_api" THEN "indexed_api"
    ELSE IF preferred_method = "google_search" THEN "google_search"
    ELSE "auto"

\* the configured method is ignored: every run takes the auto chain
SelectBranch_AlwaysAuto(preferred_method, prop, api_available) ==
    "auto"

\* lines 229-261: which branch of the if/elif/else chain runs
SelectBranch(preferred_method, prop, api_available) ==
    IF preferred_method = "gsc" /\ prop # <<>> THEN "gsc"
    ELSE IF preferred_method = "indexed_api" /\ api_available THEN "indexed_api"
    ELSE IF preferred_method = "google_search" THEN "google_search"
    ELSE "auto"

-----------------------------------------------------------------------------
(* Inputs *)

MethodChoices == {<<>>, <<"auto">>, <<"gsc">>, <<"indexed_api">>, <<"google_search">>}
ApiKeyChoices == {<<>>, <<"k">>}
\* the GUI editor allows 1..10000 (ii_indexation_gui_modern.py line 1198)
MaxUrlsChoices == {<<>>, <<1>>, <<2>>}
ExcludeChoices == {<<>>, << << <<"p">> >> >>, << << <<"z">>, <<"/", "q">> >> >>, << << <<"a", "/">> >> >>}

Source(index, listed, exclude, failing) ==
    [sitemap_url |-> index, sitemap_urls |-> listed, exclude_sitemaps |-> exclude,
     failing |-> failing]

\* a website's sitemap configuration together with the documents whose fetch fails
Sources ==
    {Source(<<IndexUrl>>, <<>>, e, {}) : e \in ExcludeChoices}
    \cup {Source(<<IndexUrl>>, <<>>, <<>>, f) : f \in {{SmP}, {IndexUrl}}}
    \cup {Source(<<IndexUrl>>, <<>>, << << <<"p">> >> >>, {SmQ})}
    \cup {Source(<<>>, << <<SmP, SmQ>> >>, <<>>, f) : f \in {{}, {SmP}}}
    \cup {Source(<<>>, << <<SmBig>> >>, <<>>, {}),
          Source(<<>>, << <<>> >>, <<>>, {}),
          Source(<<>>, <<>>, <<>>, {})}

WebsiteConfig(s, m, k, c) ==
    [sitemap_url |-> s.sitemap_url, sitemap_urls |-> s.sitemap_urls,
     exclude_sitemaps |-> s.exclude_sitemaps, max_urls |-> m,
     indexed_api_key |-> k, checking_method |-> c]

NoReport == [exc |-> FALSE, pages |-> {}]

GscChoices ==
    {[service |-> FALSE, sites |-> <<>>]}
    \cup {[service |-> TRUE, sites |-> l] : l \in {<<>>, <<PropB>>, <<PropB, PropA>>, <<PropDomainB, PropA>>}}

RunEnv(s, g) ==
    [failing |-> s.failing, service |-> g.service, sites |-> g.sites, report |-> NoReport]

\* inputs of a direct call of the Search Console backend
DirectUrlLists == {<<>>, <<P1>>, <<P2, P1>>, <<P3, P4, P2>>}
Reports ==
    {[exc |-> TRUE, pages |-> {}]}
    \cup {[exc |-> FALSE, pages |-> ps] : ps \in {{}, {P1}, {Base \o <<"y">>, Strip(P3)}, {P1, P4 \o <<"/">>}}}
DirectEnvs ==
    {[failing |-> {}, service |-> sv, sites |-> <<>>, report |-> r] :
        sv \in BOOLEAN, r \in Reports}

NoConfig ==
    [sitemap_url |-> <<>>, sitemap_urls |-> <<>>, exclude_sitemaps |-> <<>>,
     max_urls |-> <<>>, indexed_api_key |-> <<>>, checking_method |-> <<>>]

\* responses of the search engine to one request
ResponseSeq ==
    << [exc |-> FALSE, code |-> 200, marker |-> FALSE],
       [exc |-> FALSE, code |-> 429, marker |-> FALSE],
       [exc |-> FALSE, code |-> 200, marker |-> TRUE],
       [exc |-> TRUE,  code |-> 0,   marker |-> FALSE],
       [exc |-> FALSE, code |-> 500, marker |-> FALSE],
       [exc |-> FALSE, code |-> 204, marker |-> FALSE] >>
\* what the search engine answers to the successive requests of one run
Engines ==
    {<<ResponseSeq[j]>> : j \in 1..Len(ResponseSeq)}
    \cup {<<ResponseSeq[1], ResponseSeq[4]>>,
          <<ResponseSeq[3], ResponseSeq[2]>>,
          <<ResponseSeq[5], ResponseSeq[1], ResponseSeq[2]>>}
ResponseTo(i) == engine[((i - 1) % Len(engine)) + 1]

NoSnap == [set |-> FALSE, pc |-> "", k |-> 0, fetched |-> 0, requests |-> 0]

Call(backend, urls, raised, returned, out) ==
    [backend |-> backend, urls |-> urls, raised |-> raised, returned |-> returned, out |-> out]

-----------------------------------------------------------------------------
(* save_results_to_csv, lines 321-349 *)

\* str.lower() on the letters the website names are written with
LowerChar(c) ==
    IF c = "A" THEN "a" ELSE IF c = "B" THEN "b" ELSE IF c = "S" THEN "s" ELSE c
Lower(s) == [i \in 1..Len(s) |-> LowerChar(s[i])]

\* str.replace(old, new) for a one-character old
RECURSIVE Replace(_, _, _)
Replace(s, old, new) ==
    IF s = <<>> THEN <<>>
    ELSE (IF Head(s) = old THEN new ELSE <<Head(s)>>) \o Replace(Tail(s), old, new)

FileSuffix == <<"_", "i", "n", "d", "e", "x", "a", "t", "i", "o", "n", "_", "r", "e", "s", "u", "l", "t", "s", ".", "c", "s", "v">>

\* lines 327-328: safe_name and filename
FileName(website_name) ==
    Replace(Replace(Lower(website_name), " ", <<"_">>), "&", <<"a", "n", "d">>) \o FileSuffix

\* line 333: the header row
HeaderRow == <<<<"U", "R", "L">>, <<"S", "t", "a", "t", "u", "s">>, <<"M", "e", "t", "h", "o", "d">>, <<"C", "h", "e", "c", "k", "_", "D", "a", "t", "e">>>>

\* csv.writer, excel dialect: what makes a field quoted, and the line terminator
QuotedChars == {",", "\"", "\r", "\n"}
LineTerminator == <<"\r", "\n">>

\* a field written as it is, whatever it contains
csv_field_Unquoted(f) == f

\* one field as csv.writer writes it (QUOTE_MINIMAL, doublequote)
csv_field(f) ==
    IF \E i \in 1..Len(f) : f[i] \in QuotedChars
    THEN <<"\"">> \o Replace(f, "\"", <<"\"", "\"">>) \o <<"\"">>
    ELSE f

\* writer.writerow(row): the fields joined by commas, then the terminator
RECURSIVE JoinFields(_)
JoinFields(row) ==
    IF row = <<>> THEN <<>>
    ELSE IF Len(row) = 1 THEN csv_field(row[1])
    ELSE csv_field(row[1]) \o <<",">> \o JoinFields(Tail(row))
writerow(row) == JoinFields(row) \o LineTerminator

\* lines 336-342: the row of one result
ResultRow(r) == <<r.url, r.status, r.method, r.check_date>>

\* the content of the file after the header and the first k results were written
RECURSIVE Written(_, _)
Written(results_, k) ==
    IF k = 0 THEN writerow(HeaderRow)
    ELSE Written(results_, k - 1) \o writerow(ResultRow(results_[k]))

NoFiles == [n \in {} |-> <<>>]
Put(fs, name, content) ==
    [n \in DOMAIN fs \cup {name} |-> IF n = name THEN content ELSE fs[n]]
OldContent == <<"o", "l", "d">>

SaveRecord(url, status, method) ==
    [url |-> url, status |-> status, method |-> method, check_date |-> <<"2", "0", "2", "4", "-", "0", "5", "-", "0", "1", " ", "1", "0", ":", "0", "0", ":", "0", "0">>]
StatusIndexed == <<"I", "N", "D", "E", "X", "E", "D">>
StatusError == <<"E", "R", "R", "O", "R">>
MethodSearch == <<"G", "o", "o", "g", "l", "e", " ", "S", "e", "a", "r", "c", "h">>
MethodSearch500 == <<"G", "o", "o", "g", "l", "e", " ", "S", "e", "a", "r", "c", "h", " ", "(", "H", "T", "T", "P", " ", "5", "0", "0", ")">>
\* result lists handed to save_results_to_csv: none, plain ones, a URL with a
\* comma and a quote, and a URL harvested from a <loc> written on a line of its own
SaveResultLists ==
    { <<>>,
      <<SaveRecord(P1, StatusIndexed, MethodSearch)>>,
      <<SaveRecord(P1, StatusIndexed, MethodSearch), SaveRecord(P2, StatusError, MethodSearch500)>>,
      <<SaveRecord(P3, StatusError, MethodSearch500), SaveRecord(P4, StatusIndexed, MethodSearch),
        SaveRecord(P1, StatusIndexed, MethodSearch)>>,
      <<SaveRecord(P4 \o <<",", "\"", "q">>, StatusIndexed, MethodSearch)>>,
      <<SaveRecord(P1, StatusIndexed, MethodSearch),
        SaveRecord(<<"\n", " ">> \o P2 \o <<"\n">>, StatusIndexed, MethodSearch)>> }
WebsiteNames == { <<"S">>, <<"A", " ", "&", " ", "B">>, <<"a", "_", "b">> }

NoSaveArgs == [results |-> <<>>, website_name |-> <<>>]
NoSaveLog == [before |-> NoFiles, fail_at |-> -1]

\* no caller is modelled in a behaviour of the core alone
NoCaller == [kind |-> "", websites |-> <<>>, selected |-> <<>>, i |-> 1, stop |-> FALSE,
             pc |-> "", invoked |-> <<>>]

\* no GUI and no scheduler are modelled in a behaviour of the core alone
NoGui == [is_checking |-> FALSE]
NoSched == [is_running |-> FALSE]

-----------------------------------------------------------------------------
(* Initial states *)

InitRun ==
    /\ entry = "check_website_indexation"
    /\ \E s \in Sources, m \in MaxUrlsChoices, k \in ApiKeyChoices, c \in MethodChoices,
          g \in GscChoices :
          /\ website_config = WebsiteConfig(s, m, k, c)
          /\ env = RunEnv(s, g)
    /\ stop_event \in {"None", "clear"}
    /\ pc = "start"
    /\ all_urls = <<>>

InitDirect ==
    /\ entry = "gsc_direct"
    /\ website_config = NoConfig
    /\ env \in DirectEnvs
    /\ stop_event = "None"
    /\ pc = "gsc_direct"
    /\ all_urls \in DirectUrlLists

InitSave ==
    /\ entry = "save_results_to_csv"
    /\ website_config = NoConfig
    /\ env = [failing |-> {}, service |-> FALSE, sites |-> <<>>, report |-> NoReport]
    /\ stop_event = "None"
    /\ pc = "save"
    /\ all_urls = <<>>
    /\ \E rs \in SaveResultLists, nm \in WebsiteNames :
          /\ save_args = [results |-> rs, website_name |-> nm]
          /\ files \in {NoFiles, Put(NoFiles, FileName(nm), OldContent)}

Init ==
    /\ caller = NoCaller
    /\ gui = NoGui
    /\ sched = NoSched
    /\ \/ InitRun /\ save_args = NoSaveArgs /\ files = NoFiles
       \/ InitDirect /\ save_args = NoSaveArgs /\ files = NoFiles
       \/ InitSave
    /\ filename = <<>>
    /\ save_log = NoSaveLog
    /\ gsc_properties = <<>>
    /\ sitemap_urls = <<>>
    /\ cur = 1
    /\ gsc_property_url = <<>>
    /\ branch = ""
    /\ results = <<>>
    /\ calls = <<>>
    /\ netlog = <<>>
    /\ fetched = <<>>
    /\ engine = <<>>
    /\ delay = 0
    /\ stopSnap = NoSnap
    /\ harvested = <<>>

-----------------------------------------------------------------------------
(* check_website_indexation, lines 156-319 *)

gsc_available == env.service

\* the signal is never consulted
StopRequested_Never == FALSE

\* `stop_event and stop_event.is_set()`, lines 204, 244 and 294
StopRequested == stop_event # "None" /\ stop_event = "set"

\* lines 167-192: set up the checkers, list the properties, pick the sitemap source
Start ==
    /\ pc = "start"
    /\ gsc_properties' = IF gsc_available THEN env.sites ELSE <<>>
    /\ IF website_config.sitemap_url # <<>>
       THEN /\ pc' = "fetch_index"
            /\ UNCHANGED <<sitemap_urls, cur>>
       ELSE IF website_config.sitemap_urls # <<>> /\ website_config.sitemap_urls[1] # <<>>
            THEN /\ pc' = "list_loop"
                 /\ sitemap_urls' = website_config.sitemap_urls[1]
                 /\ cur' = 1
            ELSE /\ pc' = "select"
                 /\ UNCHANGED <<sitemap_urls, cur>>
    /\ UNCHANGED <<appVars, save_args, files, filename, save_log, engine, harvested, entry, website_config, env, stop_event, all_urls, gsc_property_url,
                   branch, results, calls, netlog, fetched, delay, stopSnap>>

\* fetch_urls_from_sitemap_index, lines 30-51 and 63-65
FetchIndex ==
    /\ pc = "fetch_index"
    /\ LET u == website_config.sitemap_url[1]
       IN /\ fetched' = Append(fetched, u)
          /\ IF u \in env.failing
             THEN /\ pc' = "select"
                  /\ UNCHANGED <<sitemap_urls, cur>>
             ELSE LET kept == KeptSitemaps(Locs(u), Get(website_config.exclude_sitemaps, <<>>))
                  IN /\ sitemap_urls' = kept
                     /\ cur' = 1
                     /\ pc' = IF kept = <<>> THEN "select" ELSE "index_loop"
    /\ UNCHANGED <<appVars, save_args, files, filename, save_log, engine, harvested, entry, website_config, env, stop_event, gsc_properties, all_urls,
                   gsc_property_url, branch, results, calls, netlog, delay, stopSnap>>

\* fetch_urls_from_sitemap_index, lines 55-59: one sub-sitemap
FetchFromIndex ==
    /\ pc = "index_loop"
    /\ LET u == sitemap_urls[cur]
       IN /\ fetched' = Append(fetched, u)
          /\ all_urls' = all_urls \o fetch_urls_from_sitemap(u)
    /\ cur' = cur + 1
    /\ pc' = IF cur = Len(sitemap_urls) THEN "select" ELSE "index_loop"
    /\ UNCHANGED <<appVars, save_args, files, filename, save_log, engine, harvested, entry, website_config, env, stop_event, gsc_properties, sitemap_urls,
                   gsc_property_url, branch, results, calls, netlog, delay, stopSnap>>

\* a failing sitemap ends the harvest with nothing
FetchListed_AbortsOnFailure ==
    /\ pc = "list_loop"
    /\ LET u == sitemap_urls[cur]
       IN /\ fetched' = Append(fetched, u)
          /\ IF u \in env.failing
             THEN /\ all_urls' = <<>>
                  /\ pc' = "select"
             ELSE /\ all_urls' = all_urls \o Locs(u)
                  /\ pc' = IF cur = Len(sitemap_urls) THEN "select" ELSE "list_loop"
    /\ cur' = cur + 1
    /\ UNCHANGED <<appVars, save_args, files, filename, save_log, engine, harvested, entry, website_config, env, stop_event, gsc_properties,
                   sitemap_urls, gsc_property_url, branch, results, calls, netlog, delay,
                   stopSnap>>

\* lines 193-197: one configured sitemap
FetchListed ==
    /\ pc = "list_loop"
    /\ LET u == sitemap_urls[cur]
       IN /\ fetched' = Append(fetched, u)
          /\ all_urls' = all_urls \o fetch_urls_from_sitemap(u)
    /\ cur' = cur + 1
    /\ pc' = IF cur = Len(sitemap_urls) THEN "select" ELSE "list_loop"
    /\ UNCHANGED <<appVars, save_args, files, filename, save_log, engine, harvested, entry, website_config, env, stop_event, gsc_properties, sitemap_urls,
                   gsc_property_url, branch, results, calls, netlog, delay, stopSnap>>

\* where each branch of the method chain starts
BranchPc(b) ==
    IF b = "gsc" THEN "call_gsc"
    ELSE IF b = "indexed_api" THEN "call_api"
    ELSE IF b = "google_search" THEN "gs_check"
    ELSE "auto_gsc"

\* lines 199-261: empty harvest, stop check, truncation, property match, method choice
Select ==
    /\ pc = "select"
    /\ IF all_urls = <<>> \/ StopRequested
       THEN /\ pc' = "done"
            /\ results' = <<>>
            /\ harvested' = all_urls
            /\ UNCHANGED <<all_urls, gsc_property_url, branch, calls, cur, engine>>
       ELSE LET urls == Truncate(all_urls, Get(website_config.max_urls, DefaultMaxUrls))
                website_domain == IF urls # <<>> THEN get_base_domain(urls[1]) ELSE <<>>
                prop == IF gsc_available
                        THEN MatchProperty(gsc_properties, website_domain, 1)
                        ELSE <<>>
                b == SelectBranch(Get(website_config.checking_method, "auto"), prop,
                                  indexed_api_available(website_config))
            IN /\ all_urls' = urls
               /\ harvested' = all_urls
               /\ gsc_property_url' = prop
               /\ branch' = b
               /\ pc' = BranchPc(b)
               /\ cur' = 1
               /\ results' = <<>>
               /\ calls' = IF b = "google_search"
                           THEN Append(calls, Call("google_search", urls, FALSE, FALSE, <<>>))
                           ELSE calls
               /\ IF b = "google_search" THEN engine' \in Engines ELSE UNCHANGED engine
    /\ UNCHANGED <<appVars, save_args, files, filename, save_log, entry, website_config, env, stop_event, gsc_properties, sitemap_urls,
                   netlog, fetched, delay, stopSnap>>

\* the keyword arguments of the calls at lines 234 and 269
GscCallKwargs == {"stop_event"}

\* lines 231-234: preferred Search Console backend
CallGscPreferred ==
    /\ pc = "call_gsc"
    /\ LET r == SearchConsoleChecker_check_indexation_status(
                    env.service, env.report, all_urls, GscCallKwargs)
       IN /\ calls' = Append(calls, Call("gsc", all_urls, r.raised, ~r.raised, r.out))
          /\ results' = r.out
          /\ pc' = IF r.raised THEN "raised" ELSE "done"
    /\ UNCHANGED <<appVars, save_args, files, filename, save_log, engine, harvested, entry, website_config, env, stop_event, gsc_properties, sitemap_urls, cur,
                   all_urls, gsc_property_url, branch, netlog, fetched, delay, stopSnap>>

\* lines 236-238: preferred bulk API backend
CallApiPreferred ==
    /\ pc = "call_api"
    /\ LET out == IndexedAPIChecker_check_indexation_status(
                      Get(website_config.indexed_api_key, ""), all_urls)
       IN /\ calls' = Append(calls, Call("indexed_api", all_urls, FALSE, TRUE, out))
          /\ results' = out
    /\ pc' = "done"
    /\ UNCHANGED <<appVars, save_args, files, filename, save_log, engine, harvested, entry, website_config, env, stop_event, gsc_properties, sitemap_urls, cur,
                   all_urls, gsc_property_url, branch, netlog, fetched, delay, stopSnap>>

\* lines 243-248: head of the explicit search loop, up to the request being sent
ExplicitCheck ==
    /\ pc = "gs_check"
    /\ IF cur > Len(all_urls) \/ StopRequested
       THEN /\ pc' = "done"
            /\ calls' = [calls EXCEPT ![Len(calls)].returned = TRUE,
                                      ![Len(calls)].out = results]
            /\ UNCHANGED netlog
       ELSE /\ pc' = "gs_wait"
            /\ netlog' = Append(netlog, all_urls[cur])
            /\ UNCHANGED calls
    /\ UNCHANGED <<appVars, save_args, files, filename, save_log, engine, harvested, entry, website_config, env, stop_event, gsc_properties, sitemap_urls, cur,
                   all_urls, gsc_property_url, branch, results, fetched, delay, stopSnap>>

\* a failed request ends the run instead of being recorded
ExplicitRespond_Propagates ==
    /\ pc = "gs_wait"
    /\ LET resp == ResponseTo(cur)
           r == check_indexation_google_search(resp)
       IN IF resp.exc \/ r.status = "ERROR"
          THEN /\ pc' = "raised"
               /\ UNCHANGED <<results, delay, cur>>
          ELSE /\ results' = Append(results, Record(all_urls[cur], r.status, r.method))
               /\ delay' = IF cur % ExplicitBatchEvery = 0
                           THEN ExplicitBatchPause ELSE ExplicitBaseDelay
               /\ cur' = cur + 1
               /\ pc' = "gs_check"
    /\ UNCHANGED <<appVars, save_args, files, filename, save_log, engine, harvested, entry, website_config, env, stop_event, gsc_properties,
                   sitemap_urls, all_urls, gsc_property_url, branch, calls, netlog, fetched,
                   stopSnap>>

\* lines 248-259: the response arrives, the record is appended, the loop sleeps
ExplicitRespond ==
    /\ pc = "gs_wait"
    /\ LET r == check_indexation_google_search(ResponseTo(cur))
       IN results' = Append(results, Record(all_urls[cur], r.status, r.method))
    /\ delay' = IF cur % ExplicitBatchEvery = 0 THEN ExplicitBatchPause ELSE ExplicitBaseDelay
    /\ cur' = cur + 1
    /\ pc' = "gs_check"
    /\ UNCHANGED <<appVars, save_args, files, filename, save_log, engine, harvested, entry, website_config, env, stop_event, gsc_properties, sitemap_urls,
                   all_urls, gsc_property_url, branch, calls, netlog, fetched, stopSnap>>

\* lines 266-273: auto mode, Search Console first
AutoGsc ==
    /\ pc = "auto_gsc"
    /\ IF gsc_property_url # <<>>
       THEN LET r == SearchConsoleChecker_check_indexation_status(
                         env.service, env.report, all_urls, GscCallKwargs)
            IN /\ calls' = Append(calls, Call("gsc", all_urls, r.raised, ~r.raised, r.out))
               /\ results' = r.out
               /\ pc' = IF r.raised THEN "raised" ELSE "auto_api"
       ELSE /\ pc' = "auto_api"
            /\ UNCHANGED <<calls, results>>
    /\ UNCHANGED <<appVars, save_args, files, filename, save_log, engine, harvested, entry, website_config, env, stop_event, gsc_properties, sitemap_urls, cur,
                   all_urls, gsc_property_url, branch, netlog, fetched, delay, stopSnap>>

\* lines 276-283: auto mode, bulk API second
AutoApi ==
    /\ pc = "auto_api"
    /\ IF results = <<>> /\ indexed_api_available(website_config)
       THEN LET out == IndexedAPIChecker_check_indexation_status(
                           Get(website_config.indexed_api_key, ""), all_urls)
            IN /\ calls' = Append(calls, Call("indexed_api", all_urls, FALSE, TRUE, out))
               /\ results' = out
       ELSE UNCHANGED <<calls, results>>
    /\ pc' = "auto_gs"
    /\ UNCHANGED <<appVars, save_args, files, filename, save_log, engine, harvested, entry, website_config, env, stop_event, gsc_properties, sitemap_urls, cur,
                   all_urls, gsc_property_url, branch, netlog, fetched, delay, stopSnap>>

\* lines 286-291: auto mode, search engine last
AutoSearch ==
    /\ pc = "auto_gs"
    /\ IF results = <<>>
       THEN /\ pc' = "fb_check"
            /\ cur' = 1
            /\ calls' = Append(calls, Call("google_search", all_urls, FALSE, FALSE, <<>>))
            /\ engine' \in Engines
       ELSE /\ pc' = "done"
            /\ UNCHANGED <<cur, calls, engine>>
    /\ UNCHANGED <<appVars, save_args, files, filename, save_log, harvested, entry, website_config, env, stop_event, gsc_properties, sitemap_urls,
                   all_urls, gsc_property_url, branch, results, netlog, fetched, delay, stopSnap>>

\* lines 292-300: head of the fallback search loop, up to the request being sent
FallbackCheck ==
    /\ pc = "fb_check"
    /\ IF cur > Len(all_urls) \/ StopRequested
       THEN /\ pc' = "done"
            /\ calls' = [calls EXCEPT ![Len(calls)].returned = TRUE,
                                      ![Len(calls)].out = results]
            /\ UNCHANGED netlog
       ELSE /\ pc' = "fb_wait"
            /\ netlog' = Append(netlog, all_urls[cur])
            /\ UNCHANGED calls
    /\ UNCHANGED <<appVars, save_args, files, filename, save_log, engine, harvested, entry, website_config, env, stop_event, gsc_properties, sitemap_urls, cur,
                   all_urls, gsc_property_url, branch, results, fetched, delay, stopSnap>>

\* lines 300-317: the response arrives, the record is appended, the loop sleeps
FallbackRespond ==
    /\ pc = "fb_wait"
    /\ LET r == check_indexation_google_search(ResponseTo(cur))
       IN /\ results' = Append(results, Record(all_urls[cur], r.status, r.method))
          /\ delay' = IF r.status = "RATE LIMITED" THEN FallbackRateLimitDelay
                      ELSE IF cur % FallbackBatchEvery = 0 THEN FallbackBatchPause
                      ELSE FallbackBaseDelay
    /\ cur' = cur + 1
    /\ pc' = "fb_check"
    /\ UNCHANGED <<appVars, save_args, files, filename, save_log, engine, harvested, entry, website_config, env, stop_event, gsc_properties, sitemap_urls,
                   all_urls, gsc_property_url, branch, calls, netlog, fetched, stopSnap>>

\* the caller sets the cancellation signal (stop_check, CheckThread.stop)
SetStop ==
    /\ stop_event = "clear"
    /\ pc \notin {"done", "raised"}
    /\ stop_event' = "set"
    /\ stopSnap' = [set |-> TRUE, pc |-> pc, k |-> Len(results),
                    fetched |-> Len(fetched), requests |-> Len(netlog)]
    /\ UNCHANGED <<appVars, save_args, files, filename, save_log, engine, harvested, entry, website_config, env, pc, gsc_properties, sitemap_urls, cur, all_urls,
                   gsc_property_url, branch, results, calls, netlog, fetched, delay>>

\* search_console_checker.py main(), line 203: the backend called without stop_event
GscDirectCall ==
    /\ pc = "gsc_direct"
    /\ LET r == SearchConsoleChecker_check_indexation_status(
                    env.service, env.report, all_urls, {"site_url", "urls_to_check"})
       IN /\ calls' = Append(calls, Call("gsc", all_urls, r.raised, ~r.raised, r.out))
          /\ results' = r.out
          /\ pc' = IF r.raised THEN "raised" ELSE "done"
    /\ UNCHANGED <<appVars, save_args, files, filename, save_log, engine, harvested, entry, website_config, env, stop_event, gsc_properties, sitemap_urls, cur,
                   all_urls, gsc_property_url, branch, netlog, fetched, delay, stopSnap>>

\* results are written even when there are none, and a failure is not caught
save_results_to_csv_Unguarded ==
    /\ pc = "save"
    /\ LET results_ == save_args.results
           fn == FileName(save_args.website_name)
       IN \E fail_at \in 0..(Len(results_) + 1) :
              /\ save_log' = [before |-> files, fail_at |-> fail_at]
              /\ IF fail_at = 0
                 THEN /\ files' = files
                      /\ filename' = <<>>
                      /\ pc' = "raised"
                 ELSE /\ files' = Put(files, fn, Written(results_, fail_at - 1))
                      /\ filename' = IF fail_at = Len(results_) + 1 THEN <<fn>> ELSE <<>>
                      /\ pc' = IF fail_at = Len(results_) + 1 THEN "done" ELSE "raised"
    /\ UNCHANGED <<appVars, save_args, engine, harvested, entry, website_config, env, stop_event,
                   gsc_properties, sitemap_urls, cur, all_urls, gsc_property_url, branch,
                   results, calls, netlog, fetched, delay, stopSnap>>

\* save_results_to_csv(results, website_name), lines 321-349.  fail_at is where
\* the write raises: 0 at open(), k while row k is written, Len(results)+1 nowhere
save_results_to_csv ==
    /\ pc = "save"
    /\ LET results_ == save_args.results
           fn == FileName(save_args.website_name)
       IN IF results_ = <<>>
          THEN /\ filename' = <<>>
               /\ files' = files
               /\ save_log' = [before |-> files, fail_at |-> -1]
          ELSE \E fail_at \in 0..(Len(results_) + 1) :
                  /\ save_log' = [before |-> files, fail_at |-> fail_at]
                  /\ IF fail_at = 0
                     THEN /\ files' = files
                          /\ filename' = <<>>
                     ELSE /\ files' = Put(files, fn, Written(results_, fail_at - 1))
                          /\ filename' = IF fail_at = Len(results_) + 1 THEN <<fn>> ELSE <<>>
    /\ pc' = "done"
    /\ UNCHANGED <<appVars, save_args, engine, harvested, entry, website_config, env, stop_event,
                   gsc_properties, sitemap_urls, cur, all_urls, gsc_property_url, branch,
                   results, calls, netlog, fetched, delay, stopSnap>>

Next ==
    \/ Start
    \/ FetchIndex
    \/ FetchFromIndex
    \/ FetchListed
    \/ Select
    \/ CallGscPreferred
    \/ CallApiPreferred
    \/ ExplicitCheck
    \/ ExplicitRespond
    \/ AutoGsc
    \/ AutoApi
    \/ AutoSearch
    \/ FallbackCheck
    \/ FallbackRespond
    \/ SetStop
    \/ GscDirectCall
    \/ save_results_to_csv

Spec == Init /\ [][Next]_vars

-----------------------------------------------------------------------------
(* Vocabulary of the properties *)

IsRun == entry = "check_website_indexation"
Terminated == pc \in {"done", "raised"}
preferred_method == Get(website_config.checking_method, "auto")
Invoked(b) == \E i \in 1..Len(calls) : calls[i].backend = b
BackendRank(b) == IF b = "gsc" THEN 1 ELSE IF b = "indexed_api" THEN 2 ELSE 3
LastCall == calls[Len(calls)]

-----------------------------------------------------------------------------
(* C1 *)

\* C1: in auto mode the backends are tried in the order Search Console (only
\* with a matched property), bulk API (only with a key), search engine; every
\* attempted backend returns a list; a non-empty list ends the chain, an empty
\* list from an earlier backend is followed by the next backend, and the run
\* ends with the output of the last backend attempted as its result.
C1_AutoFallbackChain ==
    (IsRun /\ preferred_method = "auto" /\ branch = "auto" /\ Terminated) =>
        /\ pc = "done"
        /\ calls # <<>>
        /\ \A i \in 1..Len(calls) :
              /\ calls[i].returned
              /\ calls[i].backend = "gsc" => gsc_property_url # <<>>
              /\ calls[i].backend = "indexed_api" => indexed_api_available(website_config)
              /\ calls[i].out # <<>> => i = Len(calls)
              /\ (calls[i].out = <<>> /\ calls[i].backend # "google_search") => i < Len(calls)
              /\ \A j \in 1..Len(calls) :
                    i < j => BackendRank(calls[i].backend) < BackendRank(calls[j].backend)
        /\ (gsc_property_url # <<>>) => calls[1].backend = "gsc"
        /\ results = LastCall.out

-----------------------------------------------------------------------------
(* C2 *)

PrerequisiteAbsent ==
    \/ preferred_method = "gsc" /\ gsc_property_url = <<>>
    \/ preferred_method = "indexed_api" /\ ~indexed_api_available(website_config)

-----------------------------------------------------------------------------
(* C3 *)

MaxUrls == Get(website_config.max_urls, DefaultMaxUrls)

IsPrefixOf(s, t) == Len(s) <= Len(t) /\ \A i \in 1..Len(s) : s[i] = t[i]

\* C3: when more URLs are harvested than max_urls (100 by default), every
\* backend invoked in the run receives exactly the first max_urls harvested
\* URLs, and search requests are issued only for URLs of that prefix, in order.
C3_Truncation ==
    (IsRun /\ branch # "" /\ Len(harvested) > MaxUrls) =>
        /\ \A i \in 1..Len(calls) : calls[i].urls = SubSeq(harvested, 1, MaxUrls)
        /\ IsPrefixOf(netlog, SubSeq(harvested, 1, MaxUrls))

C3_Witness ==
    /\ IsRun
    /\ website_config.max_urls = <<>>
    /\ Len(harvested) > DefaultMaxUrls
    /\ pc = "done"
    /\ Len(calls) = 2
    /\ Len(netlog) = DefaultMaxUrls
    /\ Len(results) = DefaultMaxUrls

-----------------------------------------------------------------------------
(* C4 *)

SearchLoopHeads == {"gs_check", "fb_check"}

\* C4: when the signal becomes set while a search loop stands at its head with
\* k URLs processed, no further search request is issued and the loop returns
\* exactly the k records of the first k URLs.
C4_CancellationBoundary ==
    (IsRun /\ stopSnap.set /\ stopSnap.pc \in SearchLoopHeads) =>
        /\ Len(netlog) = stopSnap.k
        /\ Len(results) = stopSnap.k
        /\ \A i \in 1..Len(results) : results[i].url = all_urls[i]
        /\ pc \in {stopSnap.pc, "done"}
        /\ pc = "done" => (LastCall.returned /\ LastCall.out = results)

C4_Witness ==
    /\ IsRun
    /\ pc = "done"
    /\ stopSnap.set
    /\ stopSnap.pc = "fb_check"
    /\ stopSnap.k = 1
    /\ Len(all_urls) = 2
    /\ Len(results) = 1
    /\ Len(netlog) = 1

-----------------------------------------------------------------------------
(* C5 *)

InFlight(p) == p \in {"gs_wait", "fb_wait"}

\* C5: in a run that was given a cancellation signal, every backend invoked
\* takes the signal and returns a list (never fails on it), and once the signal
\* is set no backend processes a URL beyond the one already in flight.
C5_EveryBackendStopsOnSignal ==
    (IsRun /\ stop_event # "None") =>
        /\ \A i \in 1..Len(calls) : ~calls[i].raised
        /\ stopSnap.set =>
              Len(results) <= stopSnap.k + (IF InFlight(stopSnap.pc) THEN 1 ELSE 0)

-----------------------------------------------------------------------------
(* C6 *)

\* C6: check_website_indexation never raises because of a backend invocation:
\* whatever the method, property, key and signal, the run returns a list.
C6_NeverRaises == IsRun => pc # "raised"

-----------------------------------------------------------------------------
(* C7 *)

IsFailure(resp) == resp.exc \/ (resp.code \notin 200..299 /\ resp.code # 429)

\* C7: in both search loops a failed check of URL i (exception, timeout, or a
\* response that is neither 2xx nor 429) is recorded as an ERROR record of URL
\* i, and unless cancellation is signalled every URL is still requested and
\* recorded.
C7_ErrorsDoNotAbort ==
    (IsRun /\ Invoked("google_search")) =>
        /\ pc # "raised"
        /\ \A i \in 1..Len(results) :
              IsFailure(ResponseTo(i)) =>
                  (results[i].url = all_urls[i] /\ results[i].status = "ERROR")
        /\ (pc = "done" /\ stop_event # "set") =>
              (Len(results) = Len(all_urls) /\ netlog = all_urls)

C7_Witness ==
    /\ IsRun
    /\ branch = "google_search"
    /\ pc = "done"
    /\ stop_event # "set"
    /\ Len(results) = 2
    /\ IsFailure(ResponseTo(1))
    /\ results[1].status = "ERROR"
    /\ results[2].status = "INDEXED"

-----------------------------------------------------------------------------
(* C8 *)

\* C8: a backend call that returned without cancellation returned either the
\* empty list or one record per input URL, the i-th record being that of the
\* i-th input URL (up to surrounding whitespace) with a non-empty status.
C8_StatusCompleteness ==
    \A i \in 1..Len(calls) :
        (calls[i].returned /\ stop_event # "set") =>
            \/ calls[i].out = <<>>
            \/ /\ Len(calls[i].out) = Len(calls[i].urls)
               /\ \A j \in 1..Len(calls[i].out) :
                     /\ Strip(calls[i].out[j].url) = Strip(calls[i].urls[j])
                     /\ calls[i].out[j].status # ""

C8_Witness ==
    /\ entry = "gsc_direct"
    /\ pc = "done"
    /\ Len(all_urls) = 3
    /\ Len(results) = 3
    /\ results[1].status = "INDEXED"
    /\ results[2].status = "NOT IN SEARCH CONSOLE DATA"

-----------------------------------------------------------------------------
(* C9 *)

\* C9: the url of every result record is, unmodified, one of the URL strings
\* of the list the backend was given.
C9_UrlUnmodified ==
    \A i \in 1..Len(results) : \E j \in 1..Len(all_urls) : results[i].url = all_urls[j]

-----------------------------------------------------------------------------
(* C10 *)

RECURSIVE PagesOf(_)
PagesOf(sitemaps) ==
    IF sitemaps = <<>> THEN <<>>
    ELSE fetch_urls_from_sitemap(Head(sitemaps)) \o PagesOf(Tail(sitemaps))

HarvestOver == pc \notin {"start", "fetch_index", "index_loop", "list_loop"}
HarvestResult == IF pc = "select" THEN all_urls ELSE harvested

\* C10: in the expansion of a sitemap index, an entry that contains an exclude
\* pattern as a substring is never fetched and contributes no page URL, and
\* once the harvest is over every entry containing no pattern has been fetched.
C10_Exclusion ==
    (IsRun /\ website_config.sitemap_url # <<>>) =>
        LET ex == Get(website_config.exclude_sitemaps, <<>>)
            index == website_config.sitemap_url[1]
            Matches(s) == \E i \in 1..Len(ex) : Contains(ex[i], s)
            wanted == IF index \in env.failing THEN <<>>
                      ELSE SelectSeq(Locs(index), LAMBDA s : ~Matches(s))
        IN /\ \A j \in 2..Len(fetched) : ~Matches(fetched[j])
           /\ HarvestOver =>
                 /\ fetched = <<index>> \o wanted
                 /\ HarvestResult = PagesOf(wanted)

C10_Witness ==
    /\ IsRun
    /\ pc = "select"
    /\ Get(website_config.exclude_sitemaps, <<>>) = << <<"z">>, <<"/", "q">> >>
    /\ fetched = <<IndexUrl, SmP>>
    /\ all_urls = <<P1, P2, P3>>

-----------------------------------------------------------------------------
(* C11 *)

\* the page URLs of the sitemaps that can be fetched and parsed, concatenated
RECURSIVE ExpectedPages(_)
ExpectedPages(sitemaps) ==
    IF sitemaps = <<>> THEN <<>>
    ELSE (IF Head(sitemaps) \in env.failing THEN <<>> ELSE Locs(Head(sitemaps)))
         \o ExpectedPages(Tail(sitemaps))

\* the sitemaps a run has to fetch, from its configuration
SitemapsToFetch ==
    IF website_config.sitemap_url # <<>>
    THEN IF website_config.sitemap_url[1] \in env.failing THEN <<>>
         ELSE LET ex == Get(website_config.exclude_sitemaps, <<>>)
              IN SelectSeq(Locs(website_config.sitemap_url[1]),
                           LAMBDA s : \A i \in 1..Len(ex) : ~Contains(ex[i], s))
    ELSE IF website_config.sitemap_urls # <<>> THEN website_config.sitemap_urls[1]
    ELSE <<>>

\* C11: once the harvest is over, every sitemap to fetch has been attempted in
\* order, also after a failing one, and the harvested list is the concatenation
\* in that order of the pages of the sitemaps that did not fail, duplicates
\* kept; the harvest itself never raises, a failing index giving the empty list.
C11_HarvestConcatenation ==
    (IsRun /\ HarvestOver) =>
        /\ fetched = website_config.sitemap_url \o SitemapsToFetch
        /\ HarvestResult = ExpectedPages(SitemapsToFetch)
        /\ branch = "" => pc \in {"select", "done"}

C11_Witness ==
    /\ IsRun
    /\ pc = "select"
    /\ website_config.sitemap_url = <<IndexUrl>>
    /\ SmP \in env.failing
    /\ fetched = <<IndexUrl, SmP, SmQ>>
    /\ all_urls = <<P4, P1>>

-----------------------------------------------------------------------------
(* C12 *)

\* the same URL with its trailing slash toggled
ToggleSlash(u) ==
    IF u # <<>> /\ u[Len(u)] = "/" THEN SubSeq(u, 1, Len(u) - 1) ELSE u \o <<"/">>

\* the three-way classification of the string u against the pages with data
GscClassified(u, r, pages) ==
    IF u \in pages
    THEN r.status = "INDEXED" /\ r.method = "Search Console Data"
    ELSE IF ToggleSlash(u) \in pages
         THEN r.status = "INDEXED" /\ r.method = "Search Console Data (alt URL)"
         ELSE r.status = "NOT IN SEARCH CONSOLE DATA" /\ r.status # "NOT INDEXED"

\* a Search Console call that returned one record per URL
GscAnswered ==
    /\ calls # <<>>
    /\ LastCall.backend = "gsc"
    /\ LastCall.returned
    /\ Len(LastCall.out) = Len(LastCall.urls)

-----------------------------------------------------------------------------
(* C13 *)

\* the status a response maps to when the codes in ok count as a result page
MappedStatus(resp, ok) ==
    IF resp.exc THEN "ERROR"
    ELSE IF resp.code \in ok THEN (IF resp.marker THEN "NOT INDEXED" ELSE "INDEXED")
    ELSE IF resp.code = 429 THEN "RATE LIMITED"
    ELSE "ERROR"

\* every record of the search loops has the status MappedStatus gives to its
\* response, and an ERROR record carries a detail next to the backend's name
SearchRecordsMapped(ok) ==
    (IsRun /\ Invoked("google_search")) =>
        \A i \in 1..Len(results) :
            /\ results[i].status = MappedStatus(ResponseTo(i), ok)
            /\ results[i].status = "ERROR" => results[i].method # "Google Search"

\* C13 as stated: a 2xx response without the no-results marker gives INDEXED,
\* a 2xx response with it NOT INDEXED, HTTP 429 RATE LIMITED, and any other
\* response, timeout or exception ERROR with a detail.
C13_ResponseMapping == SearchRecordsMapped(200..299)

\* C13 amended: only the status code 200 is read as a result page; every
\* other code except 429, the other 2xx codes included, gives ERROR.
C13_ResponseMappingOn200 == SearchRecordsMapped({200})

C13_Witness ==
    /\ IsRun
    /\ Invoked("google_search")
    /\ Len(results) >= 1
    /\ ResponseTo(1).code = 204
    /\ ~ResponseTo(1).exc
    /\ results[1].status = "ERROR"
    /\ results[1].method = "Google Search (HTTP 204)"

-----------------------------------------------------------------------------
(* C14 *)

\* a search loop stands at its head right after recording RATE LIMITED
AfterRateLimited ==
    /\ IsRun
    /\ pc \in {"gs_check", "fb_check"}
    /\ results # <<>>
    /\ results[Len(results)].status = "RATE LIMITED"

\* C14: in both search loops the sleep that follows a RATE LIMITED record is
\* the backoff delay, longer than the per-request delay and the batch pause.
C14_RateLimitBackoff ==
    AfterRateLimited =>
        /\ delay = FallbackRateLimitDelay
        /\ delay > ExplicitBaseDelay /\ delay > ExplicitBatchPause
        /\ delay > FallbackBaseDelay /\ delay > FallbackBatchPause

-----------------------------------------------------------------------------
(* C15 *)

\* the call of backend b in the log, when there is one
CallOf(b) == calls[CHOOSE i \in 1..Len(calls) : calls[i].backend = b]

\* C15: the bulk API backend, called with a key, returns the empty list for
\* every input; an auto-mode run that reaches it therefore goes on to the
\* search loop, and what that loop collected is what the run returns.
C15_BulkApiFallsThrough ==
    (IsRun /\ branch = "auto" /\ Invoked("indexed_api")) =>
        /\ indexed_api_available(website_config)
        /\ CallOf("indexed_api").returned
        /\ CallOf("indexed_api").out = <<>>
        /\ pc # "raised"
        /\ pc \in {"fb_check", "fb_wait", "done"} =>
              (LastCall.backend = "google_search" /\ LastCall.urls = all_urls)
        /\ pc = "done" =>
              (LastCall.returned /\ results = LastCall.out /\ Len(netlog) = Len(results))

C15_Witness ==
    /\ IsRun
    /\ preferred_method = "auto"
    /\ Invoked("indexed_api")
    /\ CallOf("indexed_api").urls = <<P1, P2>>
    /\ pc = "done"
    /\ LastCall.backend = "google_search"
    /\ Len(results) = 2
    /\ results[1].method = "Google Search"

-----------------------------------------------------------------------------
(* C16 *)

\* the domain of the first harvested URL, once the run has selected its branch
SiteDomain == get_base_domain(all_urls[1])

\* property p and the site are related: one domain contains the other
Related(p) ==
    \/ Contains(get_base_domain(p), SiteDomain)
    \/ Contains(SiteDomain, get_base_domain(p))

\* an auto-mode run past its selection, with a working Search Console
\* credential and no accessible property related to the site
AutoWithoutProperty ==
    /\ IsRun
    /\ branch # ""
    /\ preferred_method = "auto"
    /\ env.service
    /\ \A k \in 1..Len(gsc_properties) : ~Related(gsc_properties[k])

-----------------------------------------------------------------------------
(* C17 *)

\* the run of scenario A: an index of a 3-URL and a 2-URL sitemap, nothing
\* excluded, nothing failing, the default limit
ScenarioA ==
    /\ website_config.sitemap_url = <<IndexUrl>>
    /\ website_config.exclude_sitemaps = <<>>
    /\ website_config.max_urls = <<>>
    /\ env.failing = {}

\* C17: with the search-engine method selected, whatever property matched and
\* whether or not an API key is configured, the search loop is the only
\* backend in the call log and is there once; a run that returns without the
\* signal set has one record per harvested URL up to the limit, in order (5
\* records in scenario A).
C17_SearchEngineOnly ==
    (IsRun /\ preferred_method = "google_search" /\ branch # "") =>
        /\ Len(calls) = 1
        /\ calls[1].backend = "google_search"
        /\ pc # "raised"
        /\ (pc = "done" /\ stop_event # "set") =>
              /\ Len(results) = (IF Len(harvested) > MaxUrls THEN MaxUrls ELSE Len(harvested))
              /\ \A i \in 1..Len(results) : results[i].url = harvested[i]
              /\ ScenarioA => Len(results) = 5

C17_Witness ==
    /\ IsRun
    /\ preferred_method = "google_search"
    /\ ScenarioA
    /\ gsc_property_url = <<PropA>>
    /\ indexed_api_available(website_config)
    /\ pc = "done"
    /\ stop_event # "set"
    /\ Len(calls) = 1
    /\ Len(results) = 5

-----------------------------------------------------------------------------
(* C18 *)

\* the domain a property stands for: the host of a URL-prefix property, the
\* text after sc-domain: of a domain property
PropertyDomain(p) ==
    IF Len(p) >= Len(DomainPrefix) /\ SubSeq(p, 1, Len(DomainPrefix)) = DomainPrefix
    THEN SubSeq(p, Len(DomainPrefix) + 1, Len(p))
    ELSE get_base_domain(p)

\* the property's domain contains, or is contained in, the site's
DomainsRelated(p) ==
    \/ Contains(PropertyDomain(p), SiteDomain)
    \/ Contains(SiteDomain, PropertyDomain(p))

\* C18: a property is selected iff the Search Console client is available and
\* some accessible property's domain contains or is contained in the domain
\* of the first harvested URL; the selected one is the first such property of
\* the listing, and a property of an unrelated domain is never selected.
C18_PropertyMatch ==
    (IsRun /\ branch # "") =>
        /\ gsc_property_url # <<>> <=>
              (env.service /\ \E k \in 1..Len(env.sites) : DomainsRelated(env.sites[k]))
        /\ gsc_property_url # <<>> =>
              \E k \in 1..Len(env.sites) :
                  /\ gsc_property_url = <<env.sites[k]>>
                  /\ DomainsRelated(env.sites[k])
                  /\ \A j \in 1..(k - 1) : ~DomainsRelated(env.sites[j])

-----------------------------------------------------------------------------
(* C19 *)

IsSave == entry = "save_results_to_csv"
SaveReturned == IsSave /\ pc # "save"

\* the write was attempted and raised, at open() or while a row was written
WriteFailed ==
    /\ save_args.results # <<>>
    /\ save_log.fail_at \in 0..Len(save_args.results)

\* C19: when the result list is empty or the write fails, save_results_to_csv
\* returns None and does not raise; with an empty list the directory is left
\* as it was, no file created and none overwritten.
C19_NullHandle ==
    (SaveReturned /\ (save_args.results = <<>> \/ WriteFailed)) =>
        /\ pc = "done"
        /\ filename = <<>>
        /\ save_args.results = <<>> => files = save_log.before

C19_Witness ==
    /\ SaveReturned
    /\ save_args.results = <<>>
    /\ save_args.website_name = <<"A", " ", "&", " ", "B">>
    /\ DOMAIN files = {<<"a", "_", "a", "n", "d", "_", "b", "_", "i", "n", "d", "e", "x", "a", "t", "i", "o", "n", "_", "r", "e", "s", "u", "l", "t", "s", ".", "c", "s", "v">>}
    /\ files[<<"a", "_", "a", "n", "d", "_", "b", "_", "i", "n", "d", "e", "x", "a", "t", "i", "o", "n", "_", "r", "e", "s", "u", "l", "t", "s", ".", "c", "s", "v">>] = OldContent
    /\ filename = <<>>

-----------------------------------------------------------------------------
(* C20 *)

\* csv.reader, excel dialect.  A position is outside quotes iff an even number
\* of quote characters precedes it (a doubled quote counts twice).
Outside(c, i) == Cardinality({j \in 1..(i - 1) : c[j] = "\""}) % 2 = 0

\* the k-th smallest element of a set of numbers
Nth(S, k) == CHOOSE x \in S : Cardinality({y \in S : y < x}) = k - 1

\* the pieces of c between the positions of cuts, in order
Pieces(c, cuts) ==
    [k \in 1..(Cardinality(cuts) + 1) |->
        SubSeq(c,
               IF k = 1 THEN 1 ELSE Nth(cuts, k - 1) + 1,
               IF k = Cardinality(cuts) + 1 THEN Len(c) ELSE Nth(cuts, k) - 1)]

\* a doubled quote inside a quoted field stands for one quote
RECURSIVE Undouble(_)
Undouble(f) ==
    IF Len(f) >= 2 /\ f[1] = "\"" /\ f[2] = "\"" THEN <<"\"">> \o Undouble(SubSeq(f, 3, Len(f)))
    ELSE IF f = <<>> THEN <<>>
    ELSE <<Head(f)>> \o Undouble(Tail(f))

\* the value of one field as written
FieldValue(f) ==
    IF Len(f) >= 2 /\ f[1] = "\"" /\ f[Len(f)] = "\""
    THEN Undouble(SubSeq(f, 2, Len(f) - 1))
    ELSE f

\* the fields of one line: cut at the commas outside quotes
FieldsOf(line) ==
    LET parts == Pieces(line, {i \in 1..Len(line) : line[i] = "," /\ Outside(line, i)})
    IN [k \in 1..Len(parts) |-> FieldValue(parts[k])]

\* a row ends at a line feed outside quotes; the carriage return before it
\* belongs to the terminator
RowsOf(content) ==
    LET parts == Pieces(content,
                        {i \in 1..Len(content) : content[i] = "\n" /\ Outside(content, i)})
        lines == SelectSeq(parts, LAMBDA l : l # <<>>)
        Chop(l) == IF l[Len(l)] = "\r" THEN SubSeq(l, 1, Len(l) - 1) ELSE l
    IN [k \in 1..Len(lines) |-> FieldsOf(Chop(lines[k]))]

\* the number of lines of a text: its line feeds
LineCount(content) == Cardinality({i \in 1..Len(content) : content[i] = "\n"})

\* the file names of the three website names
ExpectedFileName ==
    IF save_args.website_name = <<"S">> THEN <<"s", "_", "i", "n", "d", "e", "x", "a", "t", "i", "o", "n", "_", "r", "e", "s", "u", "l", "t", "s", ".", "c", "s", "v">>
    ELSE IF save_args.website_name = <<"A", " ", "&", " ", "B">> THEN <<"a", "_", "a", "n", "d", "_", "b", "_", "i", "n", "d", "e", "x", "a", "t", "i", "o", "n", "_", "r", "e", "s", "u", "l", "t", "s", ".", "c", "s", "v">>
    ELSE <<"a", "_", "b", "_", "i", "n", "d", "e", "x", "a", "t", "i", "o", "n", "_", "r", "e", "s", "u", "l", "t", "s", ".", "c", "s", "v">>

\* a call with a non-empty list whose write did not fail
Saved ==
    /\ SaveReturned
    /\ save_args.results # <<>>
    /\ ~WriteFailed

\* the file of the call parses into the header row and then the four fields of
\* each result, in order, and its name is the one the website name gives
PersistedRows ==
    /\ filename = <<ExpectedFileName>>
    /\ ExpectedFileName \in DOMAIN files
    /\ LET rows == RowsOf(files[ExpectedFileName])
           n == Len(save_args.results)
       IN /\ Len(rows) = n + 1
          /\ rows[1] = <<<<"U", "R", "L">>, <<"S", "t", "a", "t", "u", "s">>, <<"M", "e", "t", "h", "o", "d">>, <<"C", "h", "e", "c", "k", "_", "D", "a", "t", "e">>>>
          /\ \A i \in 1..n :
                rows[i + 1] = <<save_args.results[i].url, save_args.results[i].status,
                                save_args.results[i].method, save_args.results[i].check_date>>

\* some field of some result contains a line break
HasLineBreak ==
    \E i \in 1..Len(save_args.results) :
        \E f \in {save_args.results[i].url, save_args.results[i].status,
                  save_args.results[i].method, save_args.results[i].check_date} :
            \E j \in 1..Len(f) : f[j] \in {"\r", "\n"}

\* C20 as stated: a saved list of n results gives a file of the header row and
\* n rows, row i holding the four fields of result i, n+1 lines in all, under
\* a name that depends on the website name only.
C20_PersistedFile ==
    Saved =>
        /\ PersistedRows
        /\ LineCount(files[ExpectedFileName]) = Len(save_args.results) + 1

\* C20 amended: the file holds n+1 CSV rows; it has n+1 lines when no field
\* contains a line break, and more lines when one does.
C20_PersistedRecords ==
    Saved =>
        /\ PersistedRows
        /\ ~HasLineBreak => LineCount(files[ExpectedFileName]) = Len(save_args.results) + 1
        /\ HasLineBreak => LineCount(files[ExpectedFileName]) > Len(save_args.results) + 1

C20_Witness ==
    /\ Saved
    /\ Len(save_args.results) = 2
    /\ HasLineBreak
    /\ filename = <<ExpectedFileName>>
    /\ Len(RowsOf(files[ExpectedFileName])) = 3
    /\ LineCount(files[ExpectedFileName]) = 5

-----------------------------------------------------------------------------
(* C21 *)

\* C21: once the cancellation signal is set, a run starts no further sitemap
\* fetch and no further search request: at most the one fetch that was in
\* flight when the signal was set completes.
C21_StopBeforeEveryCall ==
    (IsRun /\ stopSnap.set) =>
        /\ Len(fetched) <= stopSnap.fetched + 1
        /\ Len(netlog) = stopSnap.requests

-----------------------------------------------------------------------------
(* C22 *)

\* the run is not suspended for ever: a step that can be taken is taken
FairSpec == Spec /\ WF_vars(Next)

\* the position of a run in the auto chain
AutoPcs == {"auto_gsc", "auto_api", "auto_gs", "fb_check", "fb_wait"}

\* C22: every auto-mode run ends at DONE, after it has tried the Search
\* Console backend, the bulk API and the search engine in that order.
C22_AutoTerminates ==
    (IsRun /\ branch = "auto" /\ pc \in AutoPcs) ~> (pc = "done")

-----------------------------------------------------------------------------
(* The callers of check_website_indexation *)

\* the core variables while no core function of the model is running
CoreIdle ==
    /\ entry = ""
    /\ website_config = NoConfig
    /\ env = [failing |-> {}, service |-> FALSE, sites |-> <<>>, report |-> NoReport]
    /\ stop_event = "None"
    /\ pc = ""
    /\ all_urls = <<>>
    /\ save_args = NoSaveArgs
    /\ files = NoFiles
    /\ filename = <<>>
    /\ save_log = NoSaveLog
    /\ gsc_properties = <<>>
    /\ sitemap_urls = <<>>
    /\ cur = 1
    /\ gsc_property_url = <<>>
    /\ branch = ""
    /\ results = <<>>
    /\ calls = <<>>
    /\ netlog = <<>>
    /\ fetched = <<>>
    /\ engine = <<>>
    /\ delay = 0
    /\ stopSnap = NoSnap
    /\ harvested = <<>>

\* website.get('enabled', True)
IsEnabled(website) == Get(website.enabled, TRUE)

\* the websites of the configuration file: the enabled key absent, true or false
EnabledChoices == {<<>>, <<TRUE>>, <<FALSE>>}
WebsiteLists ==
    {<<[name |-> "a", enabled |-> e1], [name |-> "b", enabled |-> e2]>> :
        e1 \in EnabledChoices, e2 \in EnabledChoices}

\* what the user selected in the list of websites, as positions
Selections == {<<1>>, <<2>>, <<1, 2>>, <<2, 1>>}

\* the names of the websites at the positions sel
NamesAt(websites, sel) == [k \in 1..Len(sel) |-> websites[sel[k]].name]

\* the scheduler's enabled_websites setting: names, or empty for all
EnabledWebsiteSettings == {<<>>, <<"a">>, <<"b", "a">>}

Caller(kind, websites, selected, at) ==
    [kind |-> kind, websites |-> websites, selected |-> selected, i |-> 1, stop |-> FALSE,
     pc |-> at, invoked |-> <<>>]

CallerInit ==
    /\ CoreIdle
    /\ gui = NoGui
    /\ sched = NoSched
    /\ \E ws \in WebsiteLists :
          \/ caller = Caller("main", ws, <<>>, "loop")
          \/ \E sel \in Selections : caller = Caller("run_check", ws, sel, "loop")
          \/ \E sel \in Selections :
                caller = Caller("CheckThread.run", ws, NamesAt(ws, sel), "loop")
          \/ \E en \in EnabledWebsiteSettings :
                caller = Caller("scheduled_check_callback", ws, en, "callback")

\* the caller calls check_website_indexation for the website at position k;
\* the call returns or raises
InvokeCore(k, raised, after) ==
    caller' = [caller EXCEPT !.invoked = Append(@, k),
                             !.i = @ + 1,
                             !.pc = IF raised THEN after ELSE "loop"]

\* indexation_checker.py main(), lines 370-388: one turn of the loop; an
\* exception of the core is caught inside the loop
CallerMain ==
    /\ caller.kind = "main"
    /\ caller.pc = "loop"
    /\ IF caller.i > Len(caller.websites)
       THEN caller' = [caller EXCEPT !.pc = "done"]
       ELSE IF ~IsEnabled(caller.websites[caller.i])
            THEN caller' = [caller EXCEPT !.i = @ + 1]
            ELSE \E raised \in BOOLEAN : InvokeCore(caller.i, raised, "loop")
    /\ UNCHANGED <<coreVars, gui, sched>>

\* ii_indexation_gui_simple.py run_check, lines 492-512: one turn of the loop
CallerRunCheck ==
    /\ caller.kind = "run_check"
    /\ caller.pc = "loop"
    /\ IF caller.i > Len(caller.selected) \/ caller.stop
       THEN caller' = [caller EXCEPT !.pc = "done"]
       ELSE LET index == caller.selected[caller.i]
            IN IF ~IsEnabled(caller.websites[index])
               THEN caller' = [caller EXCEPT !.i = @ + 1]
               ELSE \E raised \in BOOLEAN : InvokeCore(index, raised, "done")
    /\ UNCHANGED <<coreVars, gui, sched>>

\* position of the first website called name, 0 when there is none
FindWebsite(websites, name) ==
    IF \E k \in 1..Len(websites) : websites[k].name = name
    THEN CHOOSE k \in 1..Len(websites) :
             /\ websites[k].name = name
             /\ \A j \in 1..(k - 1) : websites[j].name # name
    ELSE 0

\* ii_indexation_gui_modern.py CheckThread.run, lines 490-508: one turn of the loop
CallerCheckThreadRun ==
    /\ caller.kind = "CheckThread.run"
    /\ caller.pc = "loop"
    /\ IF caller.i > Len(caller.selected) \/ caller.stop
       THEN caller' = [caller EXCEPT !.pc = "done"]
       ELSE LET k == FindWebsite(caller.websites, caller.selected[caller.i])
            IN IF k = 0
               THEN caller' = [caller EXCEPT !.i = @ + 1]
               ELSE \E raised \in BOOLEAN : InvokeCore(k, raised, "done")
    /\ UNCHANGED <<coreVars, gui, sched>>

\* ii_indexation_gui_simple.py scheduled_check_callback, lines 700-728: the
\* positions of the enabled websites, restricted to enabled_websites when given
CallerScheduledCallback ==
    /\ caller.kind = "scheduled_check_callback"
    /\ caller.pc = "callback"
    /\ LET enabled_websites == caller.selected
           ws == caller.websites
           Wanted(k) ==
               /\ IsEnabled(ws[k])
               /\ enabled_websites # <<>> =>
                     \E j \in 1..Len(enabled_websites) : enabled_websites[j] = ws[k].name
           selected_indices ==
               SelectSeq([k \in 1..Len(ws) |-> k], Wanted)
       IN caller' = [caller EXCEPT !.selected = selected_indices,
                                   !.kind = "run_scheduled_check",
                                   !.pc = IF selected_indices # <<>> THEN "loop" ELSE "done"]
    /\ UNCHANGED <<coreVars, gui, sched>>

\* ii_indexation_gui_simple.py run_scheduled_check, lines 737-741: one turn of the loop
CallerRunScheduledCheck ==
    /\ caller.kind = "run_scheduled_check"
    /\ caller.pc = "loop"
    /\ IF caller.i > Len(caller.selected)
       THEN caller' = [caller EXCEPT !.pc = "done"]
       ELSE \E raised \in BOOLEAN : InvokeCore(caller.selected[caller.i], raised, "done")
    /\ UNCHANGED <<coreVars, gui, sched>>

\* the user presses Stop during a manual run (stop_check, CheckThread.stop_check)
CallerStop ==
    /\ caller.kind \in {"run_check", "CheckThread.run"}
    /\ caller.pc = "loop"
    /\ ~caller.stop
    /\ caller' = [caller EXCEPT !.stop = TRUE]
    /\ UNCHANGED <<coreVars, gui, sched>>

CallerNext ==
    \/ CallerMain
    \/ CallerRunCheck
    \/ CallerCheckThreadRun
    \/ CallerScheduledCallback
    \/ CallerRunScheduledCheck
    \/ CallerStop

CallerSpec == CallerInit /\ [][CallerNext]_vars

-----------------------------------------------------------------------------
(* C23 *)

\* C23: no caller calls check_website_indexation for a website whose enabled
\* flag is false.
C23_DisabledNeverChecked ==
    \A k \in 1..Len(caller.invoked) :
        IsEnabled(caller.websites[caller.invoked[k]])

-----------------------------------------------------------------------------
(* C24 *)

CanonicalFields == {"url", "status", "method", "check_date"}

\* the statuses without a detail, as the backends spell them
PlainStatuses == {"INDEXED", "NOT INDEXED", "NOT IN SEARCH CONSOLE DATA", "RATE LIMITED"}

\* the details of the failed checks of the model: an HTTP code or an exception
ErrorDetails == {"HTTP " \o ToString(ResponseSeq[j].code) : j \in {5, 6}} \cup {"exception"}

\* an error status that carries its detail
DetailedErrors == {"ERROR:" \o d : d \in ErrorDetails} \cup {"ERROR: " \o d : d \in ErrorDetails}

\* C24: every record of a result list has exactly the four canonical fields,
\* and its status is INDEXED, NOT INDEXED, the not-in-source-data status, RATE
\* LIMITED, or ERROR followed by the detail of the error.
C24_CanonicalRecords ==
    \A i \in 1..Len(results) :
        /\ DOMAIN results[i] = CanonicalFields
        /\ results[i].status \in PlainStatuses \cup DetailedErrors

-----------------------------------------------------------------------------
(* C25 *)

\* what check_website_indexation hands back to its caller (lines 201, 206, 319)
ReturnValue == results

\* what a search loop that runs to completion over urls returns
CompletedOver(urls) ==
    [i \in 1..Len(urls) |->
        LET r == check_indexation_google_search(ResponseTo(i))
        IN Record(urls[i], r.status, r.method)]

\* a run that returned after the signal stopped it with some records, fewer than URLs
StoppedEarly ==
    /\ IsRun
    /\ pc = "done"
    /\ stop_event = "set"
    /\ results # <<>>
    /\ Len(results) < Len(all_urls)
    /\ \A i \in 1..Len(calls) : calls[i].backend = "google_search"

\* C25: the value returned by a run stopped after k of n URLs (k < n) differs
\* from the value returned by a run that completed over exactly those k URLs.
C25_EarlyStopDistinguishable ==
    StoppedEarly => ReturnValue # CompletedOver(SubSeq(all_urls, 1, Len(results)))

-----------------------------------------------------------------------------
(* The simple GUI (ii_indexation_gui_simple.py): the Tk main thread runs
   start_check, stop_check, the root.after callbacks and the scheduler's
   test button; every check runs in a daemon thread of its own.  The core
   functions are represented by their outcome only. *)

\* check threads started in one behaviour
MaxCheckThreads == 2

\* how one call of check_website_indexation followed by save_results_to_csv
\* ends for the thread: a non-empty list saved to a file, nothing to store
\* (empty list, or no file), or an exception
CoreOutcomes == {"stored", "nothing", "raised"}

CheckThread(kind, selected) == [kind |-> kind, selected |-> selected, i |-> 1, pc |-> "reset"]

\* a check thread that has returned: its locals are gone
Exited(th) == [kind |-> th.kind, selected |-> <<>>, i |-> 1, pc |-> "exited"]

\* self.results[name] = {...} written by thread t
StoreResult(res, name, t) == {e \in res : e.name # name} \cup {[name |-> name, by |-> t]}

GuiInit ==
    /\ CoreIdle
    /\ caller = NoCaller
    /\ sched = NoSched
    /\ \E ws \in WebsiteLists :
          gui = [websites |-> ws, is_checking |-> FALSE, stop_event |-> FALSE,
                 threads |-> <<>>, after |-> <<>>, finish_calls |-> <<>>,
                 results |-> {}]

GuiThreads == 1..Len(gui.threads)

\* start_check, lines 427-459; the user has selected the rows `selected`
start_check(selected) ==
    /\ Len(gui.threads) < MaxCheckThreads
    /\ IF gui.is_checking
       THEN UNCHANGED gui
       ELSE gui' = [gui EXCEPT !.stop_event = FALSE,
                               !.is_checking = TRUE,
                               !.threads = Append(@, CheckThread("run_check", selected)),
                               !.finish_calls = Append(@, 0)]
    /\ UNCHANGED <<coreVars, caller, sched>>

\* stop_check, lines 461-468
stop_check ==
    /\ gui.is_checking
    /\ ~gui.stop_event
    /\ gui' = [gui EXCEPT !.stop_event = TRUE]
    /\ UNCHANGED <<coreVars, caller, sched>>

\* the main loop runs the oldest pending root.after callback:
\* finish_check, lines 470-483, on behalf of the thread that scheduled it
finish_check ==
    /\ gui.after # <<>>
    /\ LET t == Head(gui.after).thread
       IN gui' = [gui EXCEPT !.is_checking = FALSE,
                             !.after = Tail(@),
                             !.finish_calls[t] = @ + 1]
    /\ UNCHANGED <<coreVars, caller, sched>>

\* run_check line 488 and run_scheduled_check line 733: self.results = {}
ResetResults(t) ==
    /\ gui.threads[t].pc = "reset"
    /\ gui' = [gui EXCEPT !.results = {},
                          !.threads[t].pc = "loop"]
    /\ UNCHANGED <<coreVars, caller, sched>>

\* run_check lines 492-507: the head of one turn of the loop
run_check_Loop(t) ==
    /\ gui.threads[t].kind = "run_check"
    /\ gui.threads[t].pc = "loop"
    /\ LET th == gui.threads[t]
       IN IF th.i > Len(th.selected)
          THEN gui' = [gui EXCEPT !.threads[t].pc = "finally"]
          ELSE IF gui.stop_event
               THEN gui' = [gui EXCEPT !.after = Append(@, [thread |-> t, stopped |-> TRUE]),
                                       !.threads[t].pc = "finally"]
               ELSE IF ~IsEnabled(gui.websites[th.selected[th.i]])
                    THEN gui' = [gui EXCEPT !.threads[t].i = @ + 1]
                    ELSE gui' = [gui EXCEPT !.threads[t].pc = "core"]
    /\ UNCHANGED <<coreVars, caller, sched>>

\* run_check lines 510-533 and run_scheduled_check lines 741-754: the core
\* call of the turn returns or raises
CheckCore(t) ==
    /\ gui.threads[t].pc = "core"
    /\ LET th == gui.threads[t]
           name == gui.websites[th.selected[th.i]].name
       IN \E outcome \in CoreOutcomes :
             gui' = [gui EXCEPT
                        !.results = IF outcome = "stored" THEN StoreResult(@, name, t) ELSE @,
                        !.threads[t] =
                            IF outcome # "raised"
                            THEN [th EXCEPT !.i = @ + 1, !.pc = "loop"]
                            ELSE IF th.kind = "run_check"
                                 THEN [th EXCEPT !.pc = "finally"]
                                 ELSE Exited(th)]
    /\ UNCHANGED <<coreVars, caller, sched>>

\* run_check lines 571-575: the finally clause
run_check_Finally(t) ==
    /\ gui.threads[t].kind = "run_check"
    /\ gui.threads[t].pc = "finally"
    /\ gui' = [gui EXCEPT
                  !.after = IF ~gui.stop_event
                            THEN Append(@, [thread |-> t, stopped |-> FALSE])
                            ELSE @,
                  !.threads[t] = Exited(@)]
    /\ UNCHANGED <<coreVars, caller, sched>>

\* scheduled_check_callback lines 706-717: the positions to check
ScheduledIndices(websites, enabled_websites) ==
    LET Wanted(k) ==
            /\ IsEnabled(websites[k])
            /\ enabled_websites # <<>> =>
                  \E j \in 1..Len(enabled_websites) : enabled_websites[j] = websites[k].name
    IN SelectSeq([k \in 1..Len(websites) |-> k], Wanted)

\* scheduled_check_callback, lines 700-728, called by the scheduler's loop
\* thread or by the Test button of the scheduler dialog
scheduled_check_callback(enabled_websites) ==
    /\ Len(gui.threads) < MaxCheckThreads
    /\ LET selected_indices == ScheduledIndices(gui.websites, enabled_websites)
       IN IF selected_indices # <<>>
          THEN gui' = [gui EXCEPT
                          !.threads = Append(@, CheckThread("run_scheduled_check", selected_indices)),
                          !.finish_calls = Append(@, 0)]
          ELSE UNCHANGED gui
    /\ UNCHANGED <<coreVars, caller, sched>>

\* run_scheduled_check lines 737-741: the head of one turn of the loop
run_scheduled_check_Loop(t) ==
    /\ gui.threads[t].kind = "run_scheduled_check"
    /\ gui.threads[t].pc = "loop"
    /\ LET th == gui.threads[t]
       IN gui' = [gui EXCEPT !.threads[t] = IF th.i > Len(th.selected)
                                            THEN Exited(th)
                                            ELSE [th EXCEPT !.pc = "core"]]
    /\ UNCHANGED <<coreVars, caller, sched>>

GuiNext ==
    \/ \E selected \in Selections : start_check(selected)
    \/ stop_check
    \/ finish_check
    \/ \E t \in GuiThreads : ResetResults(t)
    \/ \E t \in GuiThreads : run_check_Loop(t)
    \/ \E t \in GuiThreads : CheckCore(t)
    \/ \E t \in GuiThreads : run_check_Finally(t)
    \/ \E en \in EnabledWebsiteSettings : scheduled_check_callback(en)
    \/ \E t \in GuiThreads : run_scheduled_check_Loop(t)

GuiSpec == GuiInit /\ [][GuiNext]_vars

\* a check thread that has been started and has not returned
Running(t) == gui.threads[t].pc # "exited"

-----------------------------------------------------------------------------
(* C26 *)

\* C26: in the simple GUI at most one check thread (manual run_check, or
\* scheduled / test run_scheduled_check) is in flight at any time, so
\* self.results holds the entries of one running check thread only
C26_OneCheckInFlight ==
    /\ Cardinality({t \in GuiThreads : Running(t)}) <= 1
    /\ \A e \in gui.results : \A u \in GuiThreads : Running(u) => e.by = u

-----------------------------------------------------------------------------
(* C27 *)

\* a manual run has ended: its thread has returned and none of the
\* root.after callbacks it scheduled is still pending
Ended(t) ==
    /\ gui.threads[t].kind = "run_check"
    /\ gui.threads[t].pc = "exited"
    /\ \A k \in 1..Len(gui.after) : gui.after[k].thread # t

\* C27: every manual check run of the simple GUI ends with finish_check
\* called exactly once for it (on completion, on an exception, and when the
\* user stops it at any point), so that is_checking is False again once the
\* last run has ended
C27_FinishCheckExactlyOnce ==
    /\ \A t \in GuiThreads : Ended(t) => gui.finish_calls[t] = 1
    /\ (\A t \in GuiThreads : gui.threads[t].kind = "run_check" => Ended(t)) => ~gui.is_checking

-----------------------------------------------------------------------------
(* The scheduler (src/src/scheduler.py), interval_type "daily".  The owner's
   thread calls start_scheduler, stop_scheduler and update_config; each loop
   thread runs _scheduler_loop.  A day of the clock has four slots: 0 before
   the one-minute window around run_time, 1 and 2 inside it (two moments at
   least 60 seconds apart, both less than 60 seconds from run_time), 3 after. *)

\* loop threads started in one behaviour, and days the clock runs through
MaxLoopThreads == 2
MaxDays == 2

LastSlot == 3

\* line 129-130: abs(current_time - target_time).seconds < 60
time_match(now) == now.slot \in {1, 2}

\* _should_run_check, lines 104-127 and 148-158
should_run_check(s) ==
    /\ s.enabled
    /\ time_match(s.now)
    /\ ~(s.last_run # <<>> /\ s.last_run[1] = s.now.day)

Alive(th) == th.pc # "exited"

\* a loop thread that is not inside stop_event.wait has no wait to time
NotWaiting == [day |-> 0, slot |-> 0]
LoopThread(at) == [pc |-> at, woke |-> NotWaiting]

\* start_scheduler, lines 68-81, as a function of the scheduler's state
StartScheduler(s) ==
    IF s.is_running \/ ~s.enabled
    THEN s
    ELSE [s EXCEPT !.is_running = TRUE,
                   !.stop_event = FALSE,
                   !.threads = Append(@, LoopThread("check")),
                   !.scheduler_thread = Len(s.threads) + 1]

\* stop_scheduler, lines 83-88: join(timeout=5) returns when the thread has
\* left its loop, which a thread inside the callback does not do in time
\* (a callback that returns within the 5 seconds is the behaviour in which
\* the callback returned before the call)
StopScheduler(s) ==
    LET t == s.scheduler_thread
        leaves == t # 0 /\ s.threads[t].pc \in {"check", "wait"}
    IN [s EXCEPT !.is_running = FALSE,
                 !.stop_event = TRUE,
                 !.threads = IF leaves THEN [@ EXCEPT ![t] = LoopThread("exited")] ELSE @]

\* update_config(enabled=...), lines 341-358
UpdateConfig(s, enabled) ==
    LET saved == [s EXCEPT !.enabled = enabled]
    IN IF saved.is_running
       THEN IF saved.enabled
            THEN StartScheduler(StopScheduler(saved))
            ELSE StopScheduler(saved)
       ELSE saved

SchedInit ==
    /\ CoreIdle
    /\ caller = NoCaller
    /\ gui = NoGui
    /\ \E enabled \in BOOLEAN :
          sched = [is_running |-> FALSE, stop_event |-> FALSE, enabled |-> enabled,
                   last_run |-> <<>>, threads |-> <<>>, scheduler_thread |-> 0,
                   now |-> [day |-> 1, slot |-> 0], invoked |-> [d \in 1..MaxDays |-> 0],
                   last_call |-> ""]

LoopThreads == 1..Len(sched.threads)

\* room for the thread the call would start
Room(s) == Len(s.threads) < MaxLoopThreads

start_scheduler ==
    /\ Room(sched) \/ sched.is_running \/ ~sched.enabled
    /\ sched' = [StartScheduler(sched) EXCEPT !.last_call = "start_scheduler"]
    /\ UNCHANGED <<coreVars, caller, gui>>

stop_scheduler ==
    /\ sched' = [StopScheduler(sched) EXCEPT !.last_call = "stop_scheduler"]
    /\ UNCHANGED <<coreVars, caller, gui>>

update_config(enabled) ==
    /\ Room(sched) \/ ~(sched.is_running /\ enabled)
    /\ sched' = [UpdateConfig(sched, enabled) EXCEPT !.last_call = "update_config"]
    /\ UNCHANGED <<coreVars, caller, gui>>

\* _scheduler_loop lines 92-95: the loop condition, _should_run_check and
\* the call of the callback in _run_scheduled_check (line 220)
scheduler_loop_Check(t) ==
    /\ sched.threads[t].pc = "check"
    /\ IF sched.stop_event
       THEN sched' = [sched EXCEPT !.threads[t] = LoopThread("exited")]
       ELSE IF should_run_check(sched)
            THEN sched' = [sched EXCEPT !.threads[t] = LoopThread("callback"),
                                        !.invoked[sched.now.day] = @ + 1]
            ELSE sched' = [sched EXCEPT !.threads[t] = [pc |-> "wait", woke |-> sched.now]]
    /\ UNCHANGED <<coreVars, caller, gui>>

\* _run_scheduled_check lines 220-229: the callback returns or raises; then
\* stop_event.wait(60) begins (line 98)
run_scheduled_check_Return(t) ==
    /\ sched.threads[t].pc = "callback"
    /\ \E raised \in BOOLEAN :
          sched' = [sched EXCEPT !.last_run = IF raised THEN @ ELSE <<sched.now.day>>,
                                 !.threads[t] = [pc |-> "wait", woke |-> sched.now]]
    /\ UNCHANGED <<coreVars, caller, gui>>

\* stop_event.wait(60), line 98: over when the event is set or 60 seconds
\* have passed
scheduler_loop_Wake(t) ==
    /\ sched.threads[t].pc = "wait"
    /\ sched.stop_event \/ sched.now # sched.threads[t].woke
    /\ sched' = [sched EXCEPT !.threads[t] = LoopThread("check")]
    /\ UNCHANGED <<coreVars, caller, gui>>

\* time passes: the next slot of the day, or the next day
Tick ==
    /\ IF sched.now.slot < LastSlot
       THEN sched' = [sched EXCEPT !.now.slot = @ + 1]
       ELSE /\ sched.now.day < MaxDays
            /\ sched' = [sched EXCEPT !.now = [day |-> sched.now.day + 1, slot |-> 0]]
    /\ UNCHANGED <<coreVars, caller, gui>>

SchedNext ==
    \/ start_scheduler
    \/ stop_scheduler
    \/ \E enabled \in BOOLEAN : update_config(enabled)
    \/ \E t \in LoopThreads : scheduler_loop_Check(t)
    \/ \E t \in LoopThreads : run_scheduled_check_Return(t)
    \/ \E t \in LoopThreads : scheduler_loop_Wake(t)
    \/ Tick

SchedSpec == SchedInit /\ [][SchedNext]_vars

-----------------------------------------------------------------------------
(* C28 *)

\* C28: after any sequence of start_scheduler, stop_scheduler and
\* update_config calls at most one scheduler loop thread is active, also
\* when the old thread was inside a callback while the 5-second join timed out
C28_OneLoopThread ==
    Cardinality({t \in LoopThreads : Alive(sched.threads[t])}) <= 1

-----------------------------------------------------------------------------
(* C29 *)

\* C29: when update_config has returned, the scheduler is running if and
\* only if the saved configuration has enabled = true
C29_RunningIffEnabled ==
    sched.last_call = "update_config" => (sched.is_running <=> sched.enabled)

-----------------------------------------------------------------------------
(* C30 *)

\* C30: with interval_type daily the scheduled callback is invoked at most
\* once per calendar day, whatever scheduler operations are called
C30_OncePerDay ==
    \A day \in 1..MaxDays : sched.invoked[day] <= 1

====
